---- MODULE Spec2Model ----
(***************************************************************************)
(* Model of the two command-line tools of web3-llm-contract:               *)
(*   generate_contract.py  (requirement -> LLM -> JSON repair -> schema    *)
(*                          -> static analysis -> file write)              *)
(*   explain_contract.py   (target -> (kind, payload) -> prompt -> LLM     *)
(*                          -> JSON -> schema -> advisory static analysis) *)
(*                                                                         *)
(* A text is a sequence of tokens.  A token is one character, except for   *)
(* the words the code's regular expressions look for, which are kept as    *)
(* one token each: "code", "explanation", "summary", "key_functions", the  *)
(* fence marker (three backticks) and its language tag "json".             *)
(***************************************************************************)
EXTENDS Integers, Sequences, FiniteSets, TLC

\* ------------------------------------------------------------ characters
QT == "\""
BS == "\\"
NL == "\n"
TAB == "\t"
SP == " "
FENCE == "<fence>"
TAG == "json"
\* the separator of line 58 of explain_contract.py, its en dash written as a hyphen
SEP == " - "

\* str.strip() and the regex class \s, and the whitespace json.loads skips
IsSpace(c) == c \in {SP, NL, TAB}

\* the characters json.loads (strict) rejects inside a string literal
IsControl(c) == c \in {NL, TAB}

\* ------------------------------------------------------------ text helpers
\* str.find(c): the first index of c, 0 when absent (Python: -1)
Find(s, c) ==
  IF \E i \in 1..Len(s) : s[i] = c
  THEN CHOOSE i \in 1..Len(s) : s[i] = c /\ \A k \in 1..(i - 1) : s[k] # c
  ELSE 0

\* str.rfind(c): the last index of c, 0 when absent (Python: -1)
RFind(s, c) ==
  IF \E i \in 1..Len(s) : s[i] = c
  THEN CHOOSE i \in 1..Len(s) : s[i] = c /\ \A k \in (i + 1)..Len(s) : s[k] # c
  ELSE 0

\* str.strip()
Strip(s) ==
  IF \A i \in 1..Len(s) : IsSpace(s[i]) THEN <<>>
  ELSE LET a == CHOOSE i \in 1..Len(s) :
                  ~IsSpace(s[i]) /\ \A k \in 1..(i - 1) : IsSpace(s[k])
           b == CHOOSE i \in 1..Len(s) :
                  ~IsSpace(s[i]) /\ \A k \in (i + 1)..Len(s) : IsSpace(s[k])
       IN SubSeq(s, a, b)

\* str.replace(c, r): every occurrence of the character c replaced by r
RECURSIVE Replace(_, _, _)
Replace(s, c, r) ==
  IF s = <<>> THEN <<>>
  ELSE (IF Head(s) = c THEN r ELSE <<Head(s)>>) \o Replace(Tail(s), c, r)

\* the index of the first non-space character of s at or after i
RECURSIVE SkipWs(_, _)
SkipWs(s, i) == IF i <= Len(s) /\ IsSpace(s[i]) THEN SkipWs(s, i + 1) ELSE i

\* whether the tokens w occur in s starting at index i
At(s, i, w) == i >= 1 /\ i + Len(w) - 1 <= Len(s) /\ SubSeq(s, i, i + Len(w) - 1) = w

\* ------------------------------------------------------------ JSON values
JStr(s) == [t |-> "str", v |-> s]
JNum(s) == [t |-> "num", v |-> s]
JNull == [t |-> "null", v |-> <<>>]
JList(xs) == [t |-> "list", v |-> xs]
JDict(ps) == [t |-> "dict", v |-> ps]
Absent == [t |-> "absent", v |-> <<>>]

\* dict[k] = x: a present key keeps its position, a new key goes last
DictSet(ps, k, x) ==
  IF \E i \in 1..Len(ps) : ps[i][1] = k
  THEN [i \in 1..Len(ps) |-> IF ps[i][1] = k THEN <<k, x>> ELSE ps[i]]
  ELSE Append(ps, <<k, x>>)

\* dict.get(k): Absent stands for the missing key (Python: None, or the default)
DictGet(ps, k) ==
  IF \E i \in 1..Len(ps) : ps[i][1] = k
  THEN (ps[CHOOSE i \in 1..Len(ps) : ps[i][1] = k])[2]
  ELSE Absent

\* ------------------------------------------------------------ json.loads
Fail == [ok |-> FALSE, val |-> Absent, pos |-> 0]
Okay(x, p) == [ok |-> TRUE, val |-> x, pos |-> p]

\* the character an escape \c stands for, <<>> when \c is no JSON escape
Unescape(c) ==
  CASE c = QT -> <<QT>>
    [] c = BS -> <<BS>>
    [] c = "/" -> <<"/">>
    [] c = "n" -> <<NL>>
    [] c = "t" -> <<TAB>>
    [] c = "null" -> <<NL, "ull">>
    [] OTHER -> <<>>

\* a string literal's content from index i (after the opening quote):
\* pos is the index after the closing quote
RECURSIVE ParseString(_, _, _)
ParseString(s, i, acc) ==
  IF i > Len(s) THEN Fail
  ELSE IF s[i] = QT THEN Okay(JStr(acc), i + 1)
  ELSE IF IsControl(s[i]) THEN Fail
  ELSE IF s[i] = BS
       THEN IF i + 1 > Len(s) \/ Unescape(s[i + 1]) = <<>> THEN Fail
            ELSE ParseString(s, i + 2, acc \o Unescape(s[i + 1]))
       ELSE ParseString(s, i + 1, Append(acc, s[i]))

RECURSIVE ParseNumber(_, _, _)
ParseNumber(s, i, acc) ==
  IF i <= Len(s) /\ s[i] = "1" THEN ParseNumber(s, i + 1, Append(acc, "1"))
  ELSE Okay(JNum(acc), i)

RECURSIVE ParseValue(_, _)
RECURSIVE ParseMembers(_, _, _)
RECURSIVE ParseElements(_, _, _)

\* the members of an object from index i (a key is expected there)
ParseMembers(s, i, acc) ==
  LET k == SkipWs(s, i) IN
  IF ~(k <= Len(s) /\ s[k] = QT) THEN Fail
  ELSE LET key == ParseString(s, k + 1, <<>>) IN
    IF ~key.ok THEN Fail
    ELSE LET c == SkipWs(s, key.pos) IN
      IF ~(c <= Len(s) /\ s[c] = ":") THEN Fail
      ELSE LET x == ParseValue(s, c + 1) IN
        IF ~x.ok THEN Fail
        ELSE LET e == SkipWs(s, x.pos)
                 now == DictSet(acc, key.val.v, x.val)
             IN IF e > Len(s) THEN Fail
                ELSE IF s[e] = "}" THEN Okay(JDict(now), e + 1)
                ELSE IF s[e] = "," THEN ParseMembers(s, e + 1, now)
                ELSE Fail

\* the elements of an array from index i (a value is expected there)
ParseElements(s, i, acc) ==
  LET x == ParseValue(s, i) IN
  IF ~x.ok THEN Fail
  ELSE LET e == SkipWs(s, x.pos)
           now == Append(acc, x.val)
       IN IF e > Len(s) THEN Fail
          ELSE IF s[e] = "]" THEN Okay(JList(now), e + 1)
          ELSE IF s[e] = "," THEN ParseElements(s, e + 1, now)
          ELSE Fail

ParseValue(s, i) ==
  LET k == SkipWs(s, i) IN
  IF k > Len(s) THEN Fail
  ELSE IF s[k] = QT THEN ParseString(s, k + 1, <<>>)
  ELSE IF s[k] = "1" THEN ParseNumber(s, k, <<>>)
  ELSE IF s[k] = "null" THEN Okay(JNull, k + 1)
  ELSE IF s[k] = "{"
       THEN LET m == SkipWs(s, k + 1) IN
            IF m <= Len(s) /\ s[m] = "}" THEN Okay(JDict(<<>>), m + 1)
            ELSE ParseMembers(s, k + 1, <<>>)
  ELSE IF s[k] = "["
       THEN LET m == SkipWs(s, k + 1) IN
            IF m <= Len(s) /\ s[m] = "]" THEN Okay(JList(<<>>), m + 1)
            ELSE ParseElements(s, k + 1, <<>>)
  ELSE Fail

\* json.loads(s): one value, and nothing but whitespace after it
JsonLoads(s) ==
  LET x == ParseValue(s, 1) IN
  IF x.ok /\ SkipWs(s, x.pos) > Len(s) THEN x ELSE Fail

\* ------------------------------------------------------------ str() and repr()
RECURSIVE Join(_, _)
Join(ss, sep) ==
  IF ss = <<>> THEN <<>>
  ELSE IF Len(ss) = 1 THEN ss[1]
  ELSE ss[1] \o sep \o Join(Tail(ss), sep)

\* repr(x) of a value json.loads built (a string's own quotes are not escaped)
RECURSIVE PyRepr(_)
PyRepr(x) ==
  CASE x.t = "str" -> <<"'">> \o x.v \o <<"'">>
    [] x.t = "num" -> x.v
    [] x.t = "null" -> <<"None">>
    [] x.t = "list" ->
         <<"[">> \o Join([i \in 1..Len(x.v) |-> PyRepr(x.v[i])], <<",", SP>>) \o <<"]">>
    [] x.t = "dict" ->
         <<"{">> \o Join([i \in 1..Len(x.v) |->
                           PyRepr(JStr(x.v[i][1])) \o <<":", SP>> \o PyRepr(x.v[i][2])],
                         <<",", SP>>) \o <<"}">>

\* str(x)
PyStr(x) == IF x.t = "str" THEN x.v ELSE PyRepr(x)

\* ------------------------------------------------------------ exceptions
\* type: the exception class; msg: its fixed message; cause: the exception whose
\* text the message embeds; has_text/text: the model output the message embeds;
\* fields: the fields a ValidationError enumerates
Exc(type, msg, cause, has_text, text, fields) ==
  [type |-> type, msg |-> msg, cause |-> cause, has_text |-> has_text,
   text |-> text, fields |-> fields]
NoExc == Exc("", "", "", FALSE, <<>>, {})

\* json.JSONDecodeError: str(e) is the parser's message and position only
JSONDecodeError == Exc("JSONDecodeError", "Expecting value", "JSONDecodeError", FALSE, <<>>, {})
ValidationError(fs) == Exc("ValidationError", "validation error", "", FALSE, <<>>, fs)
TypeError == Exc("TypeError", "", "", FALSE, <<>>, {})
APIError == Exc("OpenAIError", "", "", FALSE, <<>>, {})

Raise(e) == [ok |-> FALSE, exc |-> e, val |-> Absent]
Return(x) == [ok |-> TRUE, exc |-> NoExc, val |-> x]

\* ============================================================ generate_contract.py

\* MD_FENCE.sub("", raw): every fence marker goes, with the tag right after it
RECURSIVE MdFenceSub(_)
MdFenceSub(s) ==
  IF s = <<>> THEN <<>>
  ELSE IF Head(s) = FENCE
       THEN IF Len(s) >= 2 /\ s[2] = TAG THEN MdFenceSub(SubSeq(s, 3, Len(s)))
            ELSE MdFenceSub(Tail(s))
       ELSE <<Head(s)>> \o MdFenceSub(Tail(s))

NoJsonObject == Exc("ValueError", "No JSON object found in model output", "", FALSE, <<>>, {})

\* extract_json without the order check of the two braces
extract_json_unordered(raw_text) ==
  LET txt == Strip(MdFenceSub(raw_text))
      start == Find(txt, "{")
      end == RFind(txt, "}")
  IN IF start = 0 \/ end = 0 THEN Raise(NoJsonObject)
     ELSE Return(SubSeq(txt, start, end))

extract_json(raw_text) ==
  LET txt == Strip(MdFenceSub(raw_text))
      start == Find(txt, "{")
      end == RFind(txt, "}")
  IN IF start = 0 \/ end = 0 \/ end <= start THEN Raise(NoJsonObject)
     ELSE Return(SubSeq(txt, start, end))

\* group 1 of pat at index i, ("code"\s*:\s*"): the index after it, 0 when no match
PatOpen(s, i) ==
  IF ~At(s, i, <<QT, "code", QT>>) THEN 0
  ELSE LET c == SkipWs(s, i + 3) IN
       IF ~(c <= Len(s) /\ s[c] = ":") THEN 0
       ELSE LET q == SkipWs(s, c + 1) IN
            IF q <= Len(s) /\ s[q] = QT THEN q + 1 ELSE 0

\* group 3 of pat at index j, ("\s*,\s*"explanation")
PatClose(s, j) ==
  /\ j <= Len(s) /\ s[j] = QT
  /\ LET c == SkipWs(s, j + 1) IN
       /\ c <= Len(s) /\ s[c] = ","
       /\ At(s, SkipWs(s, c + 1), <<QT, "explanation", QT>>)

\* repl: backslashes first, then double quotes, then newlines
EscapeBody(body) ==
  Replace(Replace(Replace(body, BS, <<BS, BS>>), QT, <<BS, QT>>), NL, <<BS, "n">>)

\* pat.sub(repl, json_txt, count=1): the leftmost match, its body (.*?) the shortest
patch_newlines(json_txt) ==
  LET n == Len(json_txt)
      Matches(i) == PatOpen(json_txt, i) # 0
                    /\ \E j \in PatOpen(json_txt, i)..n : PatClose(json_txt, j)
  IN IF ~\E i \in 1..n : Matches(i) THEN json_txt
     ELSE LET i == CHOOSE i \in 1..n : Matches(i) /\ \A k \in 1..(i - 1) : ~Matches(k)
              b == PatOpen(json_txt, i)
              j == CHOOSE j \in b..n :
                     PatClose(json_txt, j) /\ \A k \in b..(j - 1) : ~PatClose(json_txt, k)
          IN SubSeq(json_txt, 1, b - 1) \o EscapeBody(SubSeq(json_txt, b, j - 1))
             \o SubSeq(json_txt, j, n)

\* ContractResponse._normalise_expl: a list explanation becomes bullet lines
normalise_expl(values) ==
  LET exp == DictGet(values, <<"explanation">>) IN
  IF exp.t = "list"
  THEN DictSet(values, <<"explanation">>,
               JStr(Join([i \in 1..Len(exp.v) |-> <<"-", SP>> \o PyStr(exp.v[i])], <<NL>>)))
  ELSE values

\* ContractResponse(**data): the validator, then the declared field types
\*   code: str;  explanation: Union[str, List[str]]
ContractResponse(d) ==
  IF d.t # "dict" THEN Raise(TypeError)
  ELSE LET values == normalise_expl(d.v)
           code == DictGet(values, <<"code">>)
           expl == DictGet(values, <<"explanation">>)
           bad == {f \in {<<"code">>} : code.t # "str"}
                  \cup {f \in {<<"explanation">>} : expl.t # "str"}
       IN IF bad # {} THEN Raise(ValidationError(bad))
          ELSE Return([code |-> code.v, explanation |-> expl.v])

\* call_llm's outcome: what it returns or raises, and how often patch_newlines ran
Outcome(r, n) == [ok |-> r.ok, exc |-> r.exc, val |-> r.val, patched |-> n]

\* return ContractResponse(**data)
GenValidate(d, n) ==
  IF d.ok THEN Outcome(ContractResponse(d.val), n) ELSE Outcome(Raise(JSONDecodeError), n)

\* except json.JSONDecodeError: patched = patch_newlines(extract_json(raw)); json.loads
GenRepair(ex) ==
  IF ~ex.ok THEN Outcome(ex, 0) ELSE GenValidate(JsonLoads(patch_newlines(ex.val)), 1)

\* try: data = json.loads(extract_json(raw)); a ValueError of extract_json is not
\* a JSONDecodeError and leaves call_llm
GenDirect(d, raw_text) == IF d.ok THEN GenValidate(d, 0) ELSE GenRepair(extract_json(raw_text))

GenExtracted(ex, raw_text) ==
  IF ~ex.ok THEN Outcome(ex, 0) ELSE GenDirect(JsonLoads(ex.val), raw_text)

\* call_llm, from the model's text on
GenParse(raw_text) == GenExtracted(extract_json(raw_text), raw_text)

\* ============================================================ explain_contract.py

\* ADDRESS_RE = ^0x[a-fA-F0-9]{40}$
AddrHexLen == 40
IsHex(c) == c \in {"a", "e", "F", "9", "1", "0"}
ADDRESS_RE_fullmatch(t) ==
  /\ Len(t) = 2 + AddrHexLen
  /\ t[1] = "0" /\ t[2] = "x"
  /\ \A i \in 3..Len(t) : IsHex(t[i])

\* Optional[str]
None == [none |-> TRUE, text |-> <<>>]
Some(txt) == [none |-> FALSE, text |-> txt]

\* fetch_abi: None without the credential, on any exception, and on a status
\* other than "1"; reply is what requests.get(...).json() does
fetch_abi(address, key, reply) ==
  IF ~key THEN None
  ELSE IF reply.raises THEN None
  ELSE IF reply.status = "1" THEN Some(reply.result)
  ELSE None

\* fetch_bytecode: reply is what w3.eth.get_code(...).hex() does
fetch_bytecode(address, provider, reply) ==
  IF ~provider THEN Raise(Exc("RuntimeError", "SEPOLIA_RPC not set for bytecode fetch.",
                              "", FALSE, <<>>, {}))
  ELSE IF reply.raises THEN Raise(Exc("ConnectionError", "", "", FALSE, <<>>, {}))
  ELSE Return(reply.result)

Loaded(k, txt) == Return([kind |-> k, payload |-> txt])

\* return "bytecode", fetch_bytecode(target)
AsBytecode(r) == IF r.ok THEN Loaded("bytecode", r.val) ELSE r

\* abi = fetch_abi(target); if abi: ...
FromAddress(abi, t, provider, e) ==
  IF ~abi.none /\ abi.text # <<>> THEN Loaded("abi", abi.text)
  ELSE AsBytecode(fetch_bytecode(t, provider, e.code))

\* sys.stdin.read() and path.read_text(): the text, or the exception of the read
ReadText(r) ==
  IF r.raises THEN Raise(Exc("OSError", "", "", FALSE, <<>>, {}))
  ELSE Loaded("solidity", r.result)

\* load_target going on to the other branches when the address yields nothing
load_target_fallthrough(t, key, provider, e) ==
  IF ADDRESS_RE_fullmatch(t) /\ FromAddress(fetch_abi(t, key, e.abi), t, provider, e).ok
  THEN FromAddress(fetch_abi(t, key, e.abi), t, provider, e)
  ELSE IF t = <<"-">> THEN ReadText(e.read)
  ELSE IF e.exists THEN ReadText(e.read)
  ELSE Loaded("solidity", t)

\* load_target; e holds what the collaborators answer in this run: e.abi (the
\* registry), e.code (the chain), e.exists (path.exists()), e.read (the read of
\* stdin or of the file)
load_target(t, key, provider, e) ==
  IF ADDRESS_RE_fullmatch(t) THEN FromAddress(fetch_abi(t, key, e.abi), t, provider, e)
  ELSE IF t = <<"-">> THEN ReadText(e.read)
  ELSE IF e.exists THEN ReadText(e.read)
  ELSE Loaded("solidity", t)

\* build_prompt
TrimThreshold == 8000
TrimKeep == 4000
INSTRUCTIONS == "Produce a concise technical summary **in JSON only** ..."

intro_map(k) ==
  CASE k = "abi" -> "Here is the JSON ABI of a smart contract:"
    [] k = "bytecode" -> "Here is the EVM bytecode (hex):"
    [] k = "solidity" -> "Here is the Solidity source code:"

Min(a, b) == IF a < b THEN a ELSE b
Max(a, b) == IF a > b THEN a ELSE b

\* payload[:n] and payload[-n:]
FirstChars(txt, n) == SubSeq(txt, 1, Min(n, Len(txt)))
LastChars(txt, n) == SubSeq(txt, Max(1, Len(txt) - n + 1), Len(txt))

snippet(txt) ==
  IF Len(txt) < TrimThreshold THEN txt
  ELSE FirstChars(txt, TrimKeep) \o <<NL, "...", NL>> \o LastChars(txt, TrimKeep)

build_prompt(k, txt) == <<intro_map(k), NL, NL>> \o snippet(txt) \o <<INSTRUCTIONS>>

\* the loop body leaving a mapping as it is
normalise_item_keep_dict(item) ==
  IF item.t = "dict" THEN item ELSE JStr(PyStr(item))

\* Summary._normalise_lists, the loop body: one item to its string
normalise_item(item) ==
  IF item.t = "dict"
  THEN JStr(Join([i \in 1..Len(item.v) |-> PyStr(item.v[i][2])], <<SEP>>))
  ELSE JStr(PyStr(item))

\* for item in items: normd.append(...)
RECURSIVE normalise_loop(_, _)
normalise_loop(items, normd) ==
  IF items = <<>> THEN normd
  ELSE normalise_loop(Tail(items), Append(normd, normalise_item(Head(items))))

\* iter(items): a list's elements, a dict's keys; a number or None is not iterable
Iterable(items) == items.t \in {"list", "dict", "str", "absent"}
Elements(items) ==
  CASE items.t = "absent" -> <<>>
    [] items.t = "str" -> <<items>>
    [] items.t = "list" -> items.v
    [] items.t = "dict" -> [i \in 1..Len(items.v) |-> JStr(items.v[i][1])]

\* Summary._normalise_lists: values with the three list fields normalised, or the
\* TypeError of iterating a value that is not iterable
LIST_FIELDS == << <<"key_functions">>, <<"permissions">>, <<"security_patterns">> >>

RECURSIVE normalise_lists(_, _)
normalise_lists(values, ks) ==
  IF ks = <<>> THEN Return(values)
  ELSE IF ~Iterable(DictGet(values, Head(ks))) THEN Raise(TypeError)
  ELSE normalise_lists(
         DictSet(values, Head(ks),
                 JList(normalise_loop(Elements(DictGet(values, Head(ks))), <<>>))),
         Tail(ks))

\* the declared field types:  summary: str;  the others: List[Union[str, Dict]]
IsStrOrDictList(x) == x.t = "list" /\ \A i \in 1..Len(x.v) : x.v[i].t \in {"str", "dict"}

SummaryFields(values) ==
  LET bad == {f \in {<<"summary">>} : DictGet(values, f).t # "str"}
             \cup {LIST_FIELDS[i] : i \in {k \in 1..3 : ~IsStrOrDictList(DictGet(values, LIST_FIELDS[k]))}}
  IN IF bad # {} THEN Raise(ValidationError(bad))
     ELSE Return([summary |-> DictGet(values, <<"summary">>).v,
                  key_functions |-> DictGet(values, <<"key_functions">>).v,
                  permissions |-> DictGet(values, <<"permissions">>).v,
                  security_patterns |-> DictGet(values, <<"security_patterns">>).v])

SummaryChecked(n) == IF n.ok THEN SummaryFields(n.val) ELSE n

\* Summary(**data)
Summary(d) ==
  IF d.t # "dict" THEN Raise(TypeError) ELSE SummaryChecked(normalise_lists(d.v, LIST_FIELDS))

\* raise RuntimeError(f"Invalid JSON from LLM: {e}\nRaw output:\n{raw}")
InvalidJson(cleaned) ==
  Exc("RuntimeError", "Invalid JSON from LLM:", "JSONDecodeError", TRUE, cleaned, {})

SumLoadedJson(d, cleaned) ==
  IF d.ok THEN Summary(d.val) ELSE Raise(InvalidJson(cleaned))

SumClean(raw_text) == Strip(MdFenceSub(Strip(raw_text)))

\* call_llm, from the model's text on
SumParse(raw_text) == SumLoadedJson(JsonLoads(SumClean(raw_text)), SumClean(raw_text))

\* \w of the regular expressions: a token made of word characters
IsWord(c) == c \in {"a", "n", "t", "x", "e", "1", "contract", "Tok", "code", "explanation", "null", TAG}

\* the end of the run of word tokens that starts at i (i - 1 when empty)
RECURSIVE WordRunEnd(_, _)
WordRunEnd(s, i) == IF i <= Len(s) /\ IsWord(s[i]) THEN WordRunEnd(s, i + 1) ELSE i - 1

\* default_filename: re.search(r"contract\s+(\w+)", code), "Contract" when no match
default_filename(code) ==
  LET Hit(i) == /\ code[i] = "contract"
                /\ SkipWs(code, i + 1) > i + 1
                /\ WordRunEnd(code, SkipWs(code, i + 1)) >= SkipWs(code, i + 1)
  IN IF \E i \in 1..Len(code) : Hit(i)
     THEN LET i == CHOOSE i \in 1..Len(code) : Hit(i) /\ \A k \in 1..(i - 1) : ~Hit(k)
              b == SkipWs(code, i + 1)
          IN SubSeq(code, b, WordRunEnd(code, b)) \o <<".sol">>
     ELSE <<"Contract", ".sol">>

\* ------------------------------------------------------------ inputs
MaxRawLen == 3
MaxCodeLen == 2
MaxIssues == 2

RECURSIVE SeqsUpTo(_, _)
SeqsUpTo(S, n) ==
  IF n = 0 THEN {<<>>}
  ELSE LET shorter == SeqsUpTo(S, n - 1)
       IN shorter \cup {Append(q, c) : q \in shorter, c \in S}

\* what the model may answer besides JSON: prose, fences, stray braces
BraceAlphabet == {"{", "}", FENCE, TAG, "x", SP}
BraceTexts == SeqsUpTo(BraceAlphabet, MaxRawLen)

\* the characters of a contract source the model may put in the code field
CodeAlphabet == {"a", NL, QT, BS, TAB}
CodeTexts == SeqsUpTo(CodeAlphabet, MaxCodeLen)

\* {"code":"<C>","explanation":<E>}
CodeObject(C, E) ==
  <<"{", QT, "code", QT, ":", QT>> \o C \o <<QT, ",", QT, "explanation", QT, ":">>
  \o E \o <<"}">>

ExplanationTexts ==
  { <<QT, "e", QT>>,
    <<"[", QT, "e", QT, ",", QT, "x", QT, "]">>,
    <<"1">>,
    <<"null">> }

Fenced(s) == <<FENCE, TAG, NL>> \o s \o <<NL, FENCE>>
InProse(s) == <<"x", SP>> \o s \o <<SP, "x">>

JsonTexts ==
  LET objs == {CodeObject(C, E) : C \in CodeTexts, E \in ExplanationTexts}
              \cup { <<"{", QT, "explanation", QT, ":", QT, "e", QT, "}">>,
                     <<"{", QT, "code", QT, ":", QT, "contract", SP, "Tok", QT, "}">>,
                     CodeObject(<<"contract", SP, "Tok", SP, "{", "}">>, <<QT, "e", QT>>),
                     CodeObject(<<"contract", NL, "Tok", "1">>, <<QT, "e", QT>>) }
  IN objs \cup {Fenced(o) : o \in objs} \cup {InProse(o) : o \in objs}

GenRawOutputs == BraceTexts \cup JsonTexts

\* what the static-analysis collaborator may return
IssueLists == SeqsUpTo({"issue"}, MaxIssues)

\* a collaborator's answer: the text it returns, or it raises
Answer(txt) == [raises |-> FALSE, status |-> "1", result |-> txt]
NotOk(txt) == [raises |-> FALSE, status |-> "0", result |-> txt]
Raises == [raises |-> TRUE, status |-> "", result |-> <<>>]
NoEnv == [abi |-> Raises, code |-> Raises, read |-> Raises, exists |-> FALSE]

NoPath == <<>>
NoFile == [path |-> <<>>, content |-> <<>>, exists |-> FALSE]

Line(msg, e, text) == [msg |-> msg, exc |-> e, text |-> text]


\* ------------------------------------------------------------ state
VARIABLES
  pc,              \* the position of the run
  OPENAI_API_KEY,  \* whether the environment holds the LLM credential
  requirement,     \* generator: the positional words
  out_path,        \* generator: --out, NoPath when not given
  written,         \* generator: the file dst.write_text created
  target,          \* summarizer: the positional argument
  raw_flag,        \* summarizer: --raw
  ETHERSCAN_KEY,   \* summarizer: whether the registry credential is set
  w3,              \* summarizer: whether SEPOLIA_RPC configured a provider
  env,             \* summarizer: what the registry, the chain, stdin and the disk answer
  kind,            \* summarizer: abi | bytecode | solidity
  payload,         \* summarizer: the text to explain
  prompt,          \* summarizer: build_prompt's text
  raw,             \* the text the LLM answered
  patch_calls,     \* executions of patch_newlines
  llm_calls,       \* calls of openai.ChatCompletion.create
  static_calls,    \* calls of the static-analysis collaborator
  data,            \* the parsed JSON value handed to the schema
  result,          \* the validated entity
  issues,          \* what static analysis returned
  stderr,          \* lines echoed with err=True, and tracebacks
  stdout,          \* lines echoed to standard output
  exit_code        \* the process's exit status, -1 while it runs

vars == <<pc, OPENAI_API_KEY, requirement, out_path, written, target, raw_flag,
          ETHERSCAN_KEY, w3, env, kind, payload, prompt, raw, patch_calls, llm_calls,
          static_calls, data, result, issues, stderr, stdout, exit_code>>

genVars == <<requirement, out_path, written>>
sumVars == <<target, raw_flag, ETHERSCAN_KEY, w3, env, kind, payload, prompt>>
envVars == <<OPENAI_API_KEY>>

\* sys.exit(1) after click.echo(..., err=True)
Die(lines) ==
  /\ stderr' = stderr \o lines
  /\ exit_code' = 1
  /\ pc' = "exit"

\* an exception no handler catches: the interpreter prints the traceback, status 1
Crash(e) == Die(<<Line("Traceback (most recent call last)", e, <<>>)>>)

\* ------------------------------------------------------------ generator: main
Requirements == { <<>>, << <<SP>> >>, << <<"a">>, <<"t">> >> }
OutPaths == { NoPath, <<"out", ".sol">> }

GenInit ==
  /\ pc = "startup"
  /\ \E k \in BOOLEAN, r \in Requirements, o \in OutPaths :
       /\ OPENAI_API_KEY = k /\ requirement = r /\ out_path = o
  /\ written = NoFile
  /\ target = <<>> /\ raw_flag = FALSE /\ ETHERSCAN_KEY = FALSE /\ w3 = FALSE
  /\ env = NoEnv
  /\ kind = "" /\ payload = <<>> /\ prompt = <<>>
  /\ raw = <<>> /\ patch_calls = 0 /\ llm_calls = 0 /\ static_calls = 0
  /\ data = Absent /\ result = Raise(NoExc) /\ issues = <<>>
  /\ stderr = <<>> /\ stdout = <<>> /\ exit_code = -1

\* module level: load_dotenv, the credential check
GenStartup ==
  /\ pc = "startup"
  /\ IF ~OPENAI_API_KEY
     THEN Die(<<Line("Missing OPENAI_API_KEY", NoExc, <<>>)>>)
     ELSE pc' = "main" /\ UNCHANGED <<stderr, exit_code>>
  /\ UNCHANGED <<envVars, genVars, sumVars, raw, patch_calls, llm_calls, static_calls,
                 data, result, issues, stdout>>

\* main: spec = " ".join(requirement).strip()
GenRequirement ==
  /\ pc = "main"
  /\ IF Strip(Join(requirement, <<SP>>)) = <<>>
     THEN Die(<<Line("Provide a contract requirement.", NoExc, <<>>)>>)
     ELSE pc' = "call_llm" /\ UNCHANGED <<stderr, exit_code>>
  /\ UNCHANGED <<envVars, genVars, sumVars, raw, patch_calls, llm_calls, static_calls,
                 data, result, issues, stdout>>

\* call_llm's prompt: the requirement quoted inside the fixed template
generation_prompt(spec_text) ==
  <<"You are a Solidity security expert. Generate a minimal, secure Solidity contract for:",
    NL, QT>> \o spec_text
  \o <<QT, NL, "Respond only in JSON with keys code and explanation (array preferred).">>

\* call_llm: the request; the service answers a text or the client raises
GenCallLlm ==
  /\ pc = "call_llm"
  /\ prompt' = generation_prompt(Strip(Join(requirement, <<SP>>)))
  /\ llm_calls' = llm_calls + 1
  /\ \/ /\ \E r \in GenRawOutputs : raw' = r
        /\ pc' = "parse"
        /\ UNCHANGED <<stderr, exit_code>>
     \/ /\ Crash(APIError)
        /\ UNCHANGED raw
  /\ UNCHANGED <<envVars, genVars, target, raw_flag, ETHERSCAN_KEY, w3, env, kind, payload,
                 patch_calls, static_calls, data, result, issues, stdout>>

\* the exceptions main's handler names: (ValidationError, ValueError, RuntimeError);
\* json.JSONDecodeError is a ValueError
GenCaught(e) == e.type \in {"ValidationError", "ValueError", "JSONDecodeError", "RuntimeError"}

\* main's try/except around call_llm, g being call_llm's outcome
GenHandle(g) ==
  /\ patch_calls' = patch_calls + g.patched
  /\ result' = [ok |-> g.ok, exc |-> g.exc, val |-> g.val]
  /\ IF g.ok THEN pc' = "static" /\ UNCHANGED <<stderr, exit_code>>
     ELSE IF GenCaught(g.exc) THEN Die(<<Line("{e}", g.exc, g.exc.text)>>)
     ELSE Crash(g.exc)

\* call_llm from the answer on, and main's except clause
GenParseAnswer ==
  /\ pc = "parse"
  /\ GenHandle(GenParse(raw))
  /\ UNCHANGED <<envVars, genVars, sumVars, raw, llm_calls, static_calls,
                 data, issues, stdout>>

IssueLines(iss) == [i \in 1..Len(iss) |-> Line("issue", NoExc, <<iss[i]>>)]

\* the guardrail reporting the issues without leaving
GenStatic_report_only ==
  /\ pc = "static"
  /\ static_calls' = static_calls + 1
  /\ \E iss \in IssueLists :
       /\ issues' = iss
       /\ stderr' = IF iss # <<>>
                    THEN stderr \o <<Line("Static analysis found issues:", NoExc, <<>>)>>
                         \o IssueLines(iss)
                    ELSE stderr
  /\ pc' = "save"
  /\ UNCHANGED <<envVars, genVars, sumVars, raw, patch_calls, llm_calls,
                 data, result, exit_code, stdout>>

\* the guardrail: issues = run_static_analysis(result.code)
GenStatic ==
  /\ pc = "static"
  /\ static_calls' = static_calls + 1
  /\ \E iss \in IssueLists :
       /\ issues' = iss
       /\ IF iss # <<>>
          THEN Die(<<Line("Static analysis found issues:", NoExc, <<>>)>> \o IssueLines(iss))
          ELSE pc' = "save" /\ UNCHANGED <<stderr, exit_code>>
  /\ UNCHANGED <<envVars, genVars, sumVars, raw, patch_calls, llm_calls,
                 data, result, stdout>>

\* dst.write_text(result.code): it succeeds or raises, and main goes on either way
GenSave ==
  /\ pc = "save"
  /\ LET dst == IF out_path # NoPath THEN out_path ELSE default_filename(result.val.code) IN
       \/ /\ written' = [path |-> dst, content |-> result.val.code, exists |-> TRUE]
          /\ stdout' = Append(stdout, Line("Contract code saved to", NoExc, dst))
          /\ UNCHANGED stderr
       \/ /\ stderr' = Append(stderr, Line("Failed to save file:", NoExc, dst))
          /\ UNCHANGED <<written, stdout>>
  /\ pc' = "print"
  /\ UNCHANGED <<envVars, requirement, out_path, sumVars, raw, patch_calls, llm_calls,
                 static_calls, data, result, issues, exit_code>>

GenPrint ==
  /\ pc = "print"
  /\ stdout' = stdout \o << Line("=== Generated Solidity Contract ===", NoExc, <<>>),
                            Line("code", NoExc, result.val.code),
                            Line("=== Security Considerations ===", NoExc, <<>>),
                            Line("explanation", NoExc, result.val.explanation) >>
  /\ exit_code' = 0
  /\ pc' = "exit"
  /\ UNCHANGED <<envVars, genVars, sumVars, raw, patch_calls, llm_calls, static_calls,
                 data, result, issues, stderr>>

GenNext ==
  \/ GenStartup \/ GenRequirement \/ GenCallLlm \/ GenParseAnswer
  \/ GenStatic \/ GenSave \/ GenPrint

GenSpec == GenInit /\ [][GenNext]_vars

\* ------------------------------------------------------------ summarizer: inputs
Rep(c, n) == [i \in 1..n |-> c]
Addr(hex) == <<"0", "x">> \o hex

Targets ==
  { Addr(Rep("a", AddrHexLen)),
    Addr([i \in 1..AddrHexLen |-> IF i % 2 = 0 THEN "F" ELSE "9"]),
    Addr(Rep("a", AddrHexLen - 1)),
    Addr(Rep("a", AddrHexLen + 1)),
    Addr(Rep("a", AddrHexLen - 1) \o <<"g">>),
    <<"0", "X">> \o Rep("a", AddrHexLen),
    <<"-">>,
    <<"Tok", ".sol">>,
    <<"contract", SP, "Tok">> }

Envs ==
  [ abi : {Answer(<<"[", "]">>), Answer(<<>>), NotOk(<<"x">>), Raises},
    code : {Answer(<<"0", "x", "6", "0">>), Raises},
    read : {Answer(<<"contract", SP, "Tok">>), Raises},
    exists : BOOLEAN ]

\* "key": in a JSON text
Key(k) == <<QT, k, QT, ":">>
Member(k, txt) == IF txt = <<>> THEN <<>> ELSE <<Key(k) \o txt>>
ObjectText(members) == <<"{">> \o Join(members, <<",">>) \o <<"}">>

\* {"summary":..,"key_functions":..,"permissions":..,"security_patterns":..}, a
\* member left out when its text is empty
SummaryText(sm, kf, pm, sp) ==
  ObjectText(Member("summary", sm) \o Member("key_functions", kf)
             \o Member("permissions", pm) \o Member("security_patterns", sp))

SumRawOutputs ==
  LET objs == { SummaryText(sm, kf, pm, <<"[", QT, "a", QT, "]">>) :
                  sm \in { <<QT, "a", QT>>, <<"1">>, <<>> },
                  kf \in { <<"[", QT, "a", QT, ",", "{", QT, "n", QT, ":", QT, "x", QT, "}", ",", "1", "]">>,
                           <<QT, "a", QT>>, <<"1">>, <<>>,
                           <<"{", QT, "n", QT, ":", QT, "x", QT, "}">> },
                  pm \in { <<"[", "]">>, <<>> } }
  IN objs \cup {Fenced(SummaryText(<<QT, "a", QT>>, <<"[", "]">>, <<"[", "]">>, <<"[", "]">>))}
          \cup { <<>>, <<"x">>, <<"[", "1", "]">>, <<QT, "a", QT>>,
                 SummaryText(<<QT, "a", NL, QT>>, <<>>, <<>>, <<>>),
                 InProse(SummaryText(<<QT, "a", QT>>, <<>>, <<>>, <<>>)) }

\* ------------------------------------------------------------ summarizer: main
SumInit ==
  /\ pc = "startup"
  /\ \E k \in BOOLEAN : OPENAI_API_KEY = k
  /\ \E t \in Targets, f \in BOOLEAN, ek \in BOOLEAN, p \in BOOLEAN, e \in Envs :
       /\ target = t /\ raw_flag = f /\ ETHERSCAN_KEY = ek /\ w3 = p /\ env = e
  /\ requirement = <<>> /\ out_path = NoPath /\ written = NoFile
  /\ kind = "" /\ payload = <<>> /\ prompt = <<>>
  /\ raw = <<>> /\ patch_calls = 0 /\ llm_calls = 0 /\ static_calls = 0
  /\ data = Absent /\ result = Raise(NoExc) /\ issues = <<>>
  /\ stderr = <<>> /\ stdout = <<>> /\ exit_code = -1

\* module level: load_dotenv, the credential check
SumStartup ==
  /\ pc = "startup"
  /\ IF ~OPENAI_API_KEY
     THEN Die(<<Line("Missing OPENAI_API_KEY", NoExc, <<>>)>>)
     ELSE pc' = "main" /\ UNCHANGED <<stderr, exit_code>>
  /\ UNCHANGED <<envVars, genVars, sumVars, raw, patch_calls, llm_calls, static_calls,
                 data, result, issues, stdout>>

\* main's first try/except reporting the error and going on with the target as text
SumResolved_continue(r) ==
  /\ kind' = IF r.ok THEN r.val.kind ELSE "solidity"
  /\ payload' = IF r.ok THEN r.val.payload ELSE target
  /\ stderr' = IF r.ok THEN stderr ELSE Append(stderr, Line("Input error:", r.exc, <<>>))
  /\ pc' = "call_llm"
  /\ UNCHANGED exit_code

\* main's first try/except, r being what the resolution returned or raised
SumResolved(r) ==
  IF r.ok
  THEN /\ kind' = r.val.kind /\ payload' = r.val.payload
       /\ pc' = "call_llm"
       /\ UNCHANGED <<stderr, exit_code>>
  ELSE /\ Die(<<Line("Input error:", r.exc, <<>>)>>)
       /\ UNCHANGED <<kind, payload>>

\* kind, payload = ("solidity", target) if raw else load_target(target)
SumLoad ==
  /\ pc = "main"
  /\ SumResolved(IF raw_flag THEN Loaded("solidity", target)
                 ELSE load_target(target, ETHERSCAN_KEY, w3, env))
  /\ UNCHANGED <<envVars, genVars, target, raw_flag, ETHERSCAN_KEY, w3, env, prompt,
                 raw, patch_calls, llm_calls, static_calls, data, result, issues, stdout>>

\* prompt = build_prompt(kind, payload); call_llm: the request
SumCallLlm ==
  /\ pc = "call_llm"
  /\ prompt' = build_prompt(kind, payload)
  /\ llm_calls' = llm_calls + 1
  /\ \/ /\ \E r \in SumRawOutputs : raw' = r
        /\ pc' = "parse"
        /\ UNCHANGED <<stderr, exit_code>>
     \/ /\ Crash(APIError)
        /\ UNCHANGED raw
  /\ UNCHANGED <<envVars, genVars, target, raw_flag, ETHERSCAN_KEY, w3, env, kind, payload,
                 patch_calls, static_calls, data, result, issues, stdout>>

\* the exceptions main's second handler names: (ValidationError, RuntimeError)
SumCaught(e) == e.type \in {"ValidationError", "RuntimeError"}

SumHandle(r) ==
  /\ result' = r
  /\ IF r.ok THEN pc' = "static" /\ UNCHANGED <<stderr, exit_code>>
     ELSE IF SumCaught(r.exc) THEN Die(<<Line("{exc}", r.exc, r.exc.text)>>)
     ELSE Crash(r.exc)

\* call_llm from the answer on, and main's except clause
SumParseAnswer ==
  /\ pc = "parse"
  /\ SumHandle(SumParse(raw))
  /\ UNCHANGED <<envVars, genVars, sumVars, raw, patch_calls, llm_calls, static_calls,
                 data, issues, stdout>>

\* the summarizer's static analysis leaving with status 1 on issues, as the
\* generator's guardrail does
SumStatic_blocking ==
  /\ pc = "static"
  /\ IF kind = "solidity"
     THEN /\ static_calls' = static_calls + 1
          /\ \E iss \in IssueLists :
               /\ issues' = iss
               /\ IF iss # <<>>
                  THEN Die(<<Line("Static-analysis issues:", NoExc, <<>>)>> \o IssueLines(iss))
                  ELSE pc' = "report" /\ UNCHANGED <<stderr, exit_code>>
     ELSE pc' = "report" /\ UNCHANGED <<static_calls, issues, stderr, exit_code>>
  /\ UNCHANGED <<envVars, genVars, sumVars, raw, patch_calls, llm_calls,
                 data, result, stdout>>

\* if kind == "solidity": issues = run_static(payload); the issues go to stderr,
\* then click.echo() puts an empty line on stdout
SumStatic ==
  /\ pc = "static"
  /\ IF kind = "solidity"
     THEN /\ static_calls' = static_calls + 1
          /\ \E iss \in IssueLists :
               /\ issues' = iss
               /\ IF iss # <<>>
                  THEN /\ stderr' = stderr \o <<Line("Static-analysis issues:", NoExc, <<>>)>>
                                    \o IssueLines(iss)
                       /\ stdout' = Append(stdout, Line("", NoExc, <<>>))
                  ELSE UNCHANGED <<stderr, stdout>>
     ELSE UNCHANGED <<static_calls, issues, stderr, stdout>>
  /\ pc' = "report"
  /\ UNCHANGED <<envVars, genVars, sumVars, raw, patch_calls, llm_calls,
                 data, result, exit_code>>

\* pprint(title, items)
Section(title, items) ==
  <<Line(title, NoExc, <<>>)>> \o [i \in 1..Len(items) |-> Line("item", NoExc, items[i].v)]

SumReport ==
  /\ pc = "report"
  /\ stdout' = stdout \o << Line("=== Contract Summary ===", NoExc, <<>>),
                            Line("summary", NoExc, result.val.summary) >>
               \o Section("Key Functions", result.val.key_functions)
               \o Section("Permissions", result.val.permissions)
               \o Section("Security Patterns", result.val.security_patterns)
  /\ exit_code' = 0
  /\ pc' = "exit"
  /\ UNCHANGED <<envVars, genVars, sumVars, raw, patch_calls, llm_calls, static_calls,
                 data, result, issues, stderr>>

SumNext ==
  \/ SumStartup \/ SumLoad \/ SumCallLlm \/ SumParseAnswer \/ SumStatic \/ SumReport

SumSpec == SumInit /\ [][SumNext]_vars

\* ------------------------------------------------------------ schema validation alone
MaxItems == 2

\* what a list may hold: strings, other scalars, mappings of one and two keys
ItemValues ==
  { JStr(<<"a">>), JStr(<<"x">>), JNum(<<"1">>), JNull,
    JDict(<< <<<<"n">>, JStr(<<"x">>)>> >>),
    JDict(<< <<<<"n">>, JStr(<<"x">>)>>, <<<<"t">>, JNum(<<"1">>)>> >>) }

ListValues == {JList(xs) : xs \in SeqsUpTo(ItemValues, MaxItems)}

\* what a field of the parsed object may be
RichValues ==
  {Absent, JStr(<<"a">>), JNum(<<"1">>), JNull, JDict(<< <<<<"n">>, JStr(<<"x">>)>> >>)}
  \cup ListValues
PlainValues == {Absent, JList(<<>>), JList(<<JStr(<<"a">>)>>), JNum(<<"1">>)}
ScalarValues == {Absent, JStr(<<"a">>), JNum(<<"1">>), JNull, JList(<<>>)}

\* the object with the given members, an Absent one left out
RECURSIVE MakeDict(_, _)
MakeDict(ks, xs) ==
  IF ks = <<>> THEN <<>>
  ELSE IF Head(xs) = Absent THEN MakeDict(Tail(ks), Tail(xs))
  ELSE << <<Head(ks), Head(xs)>> >> \o MakeDict(Tail(ks), Tail(xs))

SUMMARY_KEYS == << <<"summary">> >> \o LIST_FIELDS
GENERATION_KEYS == << <<"code">>, <<"explanation">> >>

\* the three list fields, the one at position r drawn from RichValues
ListFieldChoices ==
  UNION { { [i \in 1..3 |-> IF i = r THEN x ELSE IF i < r THEN y ELSE z] :
              x \in RichValues, y \in PlainValues, z \in PlainValues } : r \in 1..3 }

SummaryObjects ==
  { JDict(MakeDict(SUMMARY_KEYS, <<sm>> \o fs)) : sm \in ScalarValues, fs \in ListFieldChoices }

GenerationObjects ==
  { JDict(MakeDict(GENERATION_KEYS, <<c, e>>)) : c \in ScalarValues, e \in RichValues }

ValInit ==
  /\ \/ pc = "validate_summary" /\ data \in SummaryObjects
     \/ pc = "validate_generation" /\ data \in GenerationObjects
  /\ OPENAI_API_KEY = TRUE
  /\ requirement = <<>> /\ out_path = NoPath /\ written = NoFile
  /\ target = <<>> /\ raw_flag = FALSE /\ ETHERSCAN_KEY = FALSE /\ w3 = FALSE
  /\ env = NoEnv
  /\ kind = "" /\ payload = <<>> /\ prompt = <<>>
  /\ raw = <<>> /\ patch_calls = 0 /\ llm_calls = 0 /\ static_calls = 0
  /\ result = Raise(NoExc) /\ issues = <<>>
  /\ stderr = <<>> /\ stdout = <<>> /\ exit_code = -1

\* return Summary(**data)
ValSummary ==
  /\ pc = "validate_summary"
  /\ result' = Summary(data)
  /\ pc' = "summary_done"
  /\ UNCHANGED <<envVars, genVars, sumVars, raw, patch_calls, llm_calls, static_calls,
                 data, issues, stderr, stdout, exit_code>>

\* return ContractResponse(**data)
ValGeneration ==
  /\ pc = "validate_generation"
  /\ result' = ContractResponse(data)
  /\ pc' = "generation_done"
  /\ UNCHANGED <<envVars, genVars, sumVars, raw, patch_calls, llm_calls, static_calls,
                 data, issues, stderr, stdout, exit_code>>

ValNext == ValSummary \/ ValGeneration

ValSpec == ValInit /\ [][ValNext]_vars

\* ------------------------------------------------------------ the repair pass alone
MaxBodyLen == 3

RepairInputs ==
  { CodeObject(C, E) : C \in SeqsUpTo(CodeAlphabet, MaxBodyLen),
                       E \in { <<QT, "e", QT>>, <<"[", QT, "e", QT, "]">> } }

RepInit ==
  /\ pc = "direct"
  /\ raw \in RepairInputs
  /\ OPENAI_API_KEY = TRUE
  /\ requirement = <<>> /\ out_path = NoPath /\ written = NoFile
  /\ target = <<>> /\ raw_flag = FALSE /\ ETHERSCAN_KEY = FALSE /\ w3 = FALSE
  /\ env = NoEnv
  /\ kind = "" /\ payload = <<>> /\ prompt = <<>>
  /\ patch_calls = 0 /\ llm_calls = 0 /\ static_calls = 0
  /\ data = Absent /\ result = Raise(NoExc) /\ issues = <<>>
  /\ stderr = <<>> /\ stdout = <<>> /\ exit_code = -1

\* json.loads's outcome d kept as the run's data
RepKeep(d, next) ==
  /\ data' = IF d.ok THEN d.val ELSE Absent
  /\ result' = IF d.ok THEN Return(d.val) ELSE Raise(JSONDecodeError)
  /\ pc' = IF d.ok THEN "done" ELSE next

\* try: data = json.loads(extract_json(raw))
RepDirect ==
  /\ pc = "direct"
  /\ RepKeep(JsonLoads(extract_json(raw).val), "repair")
  /\ UNCHANGED <<envVars, genVars, sumVars, raw, patch_calls, llm_calls, static_calls,
                 issues, stderr, stdout, exit_code>>

\* except json.JSONDecodeError: patched = patch_newlines(extract_json(raw)); json.loads
RepRepair ==
  /\ pc = "repair"
  /\ patch_calls' = patch_calls + 1
  /\ RepKeep(JsonLoads(patch_newlines(extract_json(raw).val)), "done")
  /\ UNCHANGED <<envVars, genVars, sumVars, raw, llm_calls, static_calls,
                 issues, stderr, stdout, exit_code>>

RepNext == RepDirect \/ RepRepair

RepSpec == RepInit /\ [][RepNext]_vars

\* ------------------------------------------------------------ the prompt alone
MaxSlack == 8

\* a payload of n characters: its first TrimKeep are "a", its last TrimKeep "e",
\* whatever lies between "x"
PayloadOf(n) ==
  [i \in 1..n |-> IF i <= TrimKeep THEN "a" ELSE IF i > n - TrimKeep THEN "e" ELSE "x"]

PayloadLengths ==
  (0..MaxSlack) \cup ((TrimThreshold - MaxSlack)..(TrimThreshold + MaxSlack))

PromptInit ==
  /\ pc = "build"
  /\ kind \in {"abi", "bytecode", "solidity"}
  /\ \E n \in PayloadLengths : payload = PayloadOf(n)
  /\ OPENAI_API_KEY = TRUE
  /\ requirement = <<>> /\ out_path = NoPath /\ written = NoFile
  /\ target = <<>> /\ raw_flag = FALSE /\ ETHERSCAN_KEY = FALSE /\ w3 = FALSE
  /\ env = NoEnv
  /\ prompt = <<>>
  /\ raw = <<>> /\ patch_calls = 0 /\ llm_calls = 0 /\ static_calls = 0
  /\ data = Absent /\ result = Raise(NoExc) /\ issues = <<>>
  /\ stderr = <<>> /\ stdout = <<>> /\ exit_code = -1

\* prompt = build_prompt(kind, payload)
PromptBuild ==
  /\ pc = "build"
  /\ prompt' = build_prompt(kind, payload)
  /\ pc' = "done"
  /\ UNCHANGED <<envVars, genVars, target, raw_flag, ETHERSCAN_KEY, w3, env, kind, payload,
                 raw, patch_calls, llm_calls, static_calls, data, result, issues,
                 stderr, stdout, exit_code>>

PromptNext == PromptBuild

PromptSpec == PromptInit /\ [][PromptNext]_vars

\* ------------------------------------------------------------ generator: claims

\* the client raised instead of answering
ApiFailed == \E i \in 1..Len(stderr) : stderr[i].exc.type = "OpenAIError"

\* call_llm has received the model's text and has returned or raised
GenParsed == pc \in {"static", "save", "print", "exit"} /\ llm_calls = 1 /\ ~ApiFailed

\* no '{' followed, later in the text, by a '}'
NoBracePair(txt) ==
  ~\E i \in 1..Len(txt) : txt[i] = "{" /\ \E j \in (i + 1)..Len(txt) : txt[j] = "}"

LastErr == stderr[Len(stderr)]

\* C1: when static analysis returns issues the generator exits with status 1 and
\* writes no file; a file is written only after the answer was parsed and
\* validated and static analysis returned no issues.
C1_WriteOnlyAfterCleanAnalysis ==
  /\ (static_calls > 0 /\ issues # <<>>) => (pc = "exit" /\ exit_code = 1 /\ ~written.exists)
  /\ written.exists =>
       /\ result.ok /\ llm_calls = 1 /\ static_calls = 1 /\ issues = <<>>
       /\ written.content = result.val.code

C1_Witness ==
  /\ pc = "exit" /\ result.ok /\ patch_calls = 1
  /\ Len(issues) = 2 /\ exit_code = 1 /\ ~written.exists

\* C3: when the answer cannot be parsed as JSON, the error that
\* reaches the caller carries the underlying parse error and the raw model text.
C3_ParseErrorCarriesRawText ==
  (GenParsed /\ ~result.ok /\ result.exc.cause = "JSONDecodeError") =>
     /\ LastErr.exc.cause = "JSONDecodeError"
     /\ LastErr.exc.has_text
     /\ LastErr.text \in {raw, Strip(MdFenceSub(raw))}

\* C3, the summarizer's half: its RuntimeError embeds the parse error and the
\* answer as json.loads received it (fences and outer whitespace stripped).
C3_SummarizerCarriesRawText ==
  (pc = "exit" /\ llm_calls = 1 /\ ~ApiFailed /\ ~result.ok
   /\ result.exc.cause = "JSONDecodeError") =>
     /\ LastErr.exc.cause = "JSONDecodeError"
     /\ LastErr.exc.has_text
     /\ LastErr.text = Strip(MdFenceSub(raw))

\* C4: an answer without a '{' ... '}' pair (fences stripped) fails with
\* 'No JSON object found in model output', and patch_newlines never runs on it.
C4_NoBracesNoRepair ==
  (GenParsed /\ NoBracePair(MdFenceSub(raw))) =>
     /\ result = Raise(NoJsonObject)
     /\ patch_calls = 0
     /\ exit_code = 1
     /\ stderr = <<Line("{e}", NoJsonObject, <<>>)>>

C4_Witness ==
  /\ GenParsed /\ raw = <<"}", FENCE, "{">>
  /\ result.exc.msg = "No JSON object found in model output" /\ patch_calls = 0

\* ------------------------------------------------------------ summarizer: claims

\* 0x followed by exactly 40 hex characters
AddressShaped(t) ==
  /\ Len(t) = 42 /\ SubSeq(t, 1, 2) = <<"0", "x">>
  /\ \A i \in 3..42 : t[i] \in {"0", "1", "9", "a", "e", "F"}

\* the resolution of the target has returned or raised
Resolved == OPENAI_API_KEY /\ pc \notin {"startup", "main"}

\* the registry yields no ABI; the chain yields no bytecode; the read fails
NoAbiAvailable ==
  ~ETHERSCAN_KEY \/ env.abi.raises \/ env.abi.status # "1" \/ env.abi.result = <<>>
BytecodeFails == ~w3 \/ env.code.raises
ResolutionFails ==
  /\ ~raw_flag
  /\ \/ AddressShaped(target) /\ NoAbiAvailable /\ BytecodeFails
     \/ ~AddressShaped(target) /\ (target = <<"-">> \/ env.exists) /\ env.read.raises

InputErrorExit ==
  /\ pc = "exit" /\ exit_code = 1 /\ kind = "" /\ llm_calls = 0
  /\ Len(stderr) = 1 /\ stderr[1].msg = "Input error:"

\* C6: load_target never treats an address-shaped target as literal text: it
\* returns kind abi or bytecode, or fails; with no ABI and a failing bytecode
\* fetch the failure reaches the caller and no other branch is taken.
C6_AddressNeverLiteral ==
  (Resolved /\ ~raw_flag /\ AddressShaped(target)) =>
     /\ kind \in {"abi", "bytecode"} \/ InputErrorExit
     /\ kind # "" => payload # target
     /\ (NoAbiAvailable /\ BytecodeFails) => InputErrorExit

C6_Witness ==
  /\ Resolved /\ ~raw_flag /\ AddressShaped(target)
  /\ ~ETHERSCAN_KEY /\ ~w3 /\ env.exists /\ ~env.read.raises
  /\ InputErrorExit /\ stderr[1].exc.type = "RuntimeError"

\* C9: a summarizer run whose input resolution fails reports on stderr and exits
\* with status 1 without calling the LLM; the LLM is called at most once in a
\* run, and a malformed or invalid answer ends the run instead of a retry.
C9_InputErrorBeforeLlm ==
  /\ llm_calls <= 1
  /\ (Resolved /\ ResolutionFails) => (InputErrorExit /\ raw = <<>>)
  /\ (pc \in {"static", "report", "exit"} /\ llm_calls = 1 /\ ~result.ok) =>
       (pc = "exit" /\ exit_code = 1 /\ Len(stderr) = 1)

C9_Witness ==
  /\ Resolved /\ ResolutionFails /\ target = <<"-">>
  /\ InputErrorExit /\ raw = <<>>

\* the issues as the summarizer prints them
IssuesOnStderr ==
  stderr = <<Line("Static-analysis issues:", NoExc, <<>>)>> \o IssueLines(issues)

ReportLine(m) == \E i \in 1..Len(stdout) : stdout[i].msg = m
ReportPrinted ==
  /\ \A m \in {"=== Contract Summary ===", "summary", "Key Functions", "Permissions",
               "Security Patterns"} : ReportLine(m)
  /\ Len(stdout) >= 5 + Len(result.val.key_functions) + Len(result.val.permissions)
                      + Len(result.val.security_patterns)

\* C10: the summarizer's static analysis is advisory: for Solidity input with a
\* validated summary, issues are on stderr before the report, the full report is
\* printed and the run ends with status 0; abi and bytecode input is not analysed.
C10_StaticAnalysisAdvisory ==
  /\ kind \in {"abi", "bytecode"} => (static_calls = 0 /\ issues = <<>>)
  /\ (kind = "solidity" /\ result.ok /\ pc \in {"report", "exit"}) =>
       /\ static_calls = 1
       /\ issues # <<>> => IssuesOnStderr
  /\ pc = "report" => ~ReportLine("=== Contract Summary ===")
  /\ (pc = "exit" /\ result.ok) => (exit_code = 0 /\ ReportPrinted)

C10_Witness ==
  /\ pc = "exit" /\ kind = "solidity" /\ result.ok
  /\ Len(issues) = 2 /\ IssuesOnStderr
  /\ exit_code = 0 /\ ReportPrinted /\ Len(result.val.key_functions) = 3

\* ------------------------------------------------------------ schema: claims

\* the member k of the parsed object under validation
Field(k) == DictGet(data.v, k)

\* the validated summary's list field k
OutField(k) ==
  CASE k = <<"key_functions">> -> result.val.key_functions
    [] k = <<"permissions">> -> result.val.permissions
    [] k = <<"security_patterns">> -> result.val.security_patterns

ListFieldNames == {LIST_FIELDS[i] : i \in 1..3}

\* C2: validation fails with a validation error whenever a required
\* field is absent or of an incompatible shape: summary, key_functions,
\* permissions, security_patterns of a summary; code, explanation of a generation.
C2_AnyMissingFieldFails ==
  /\ ( /\ pc = "summary_done"
       /\ \/ Field(<<"summary">>).t # "str"
          \/ \E k \in ListFieldNames : Field(k).t \notin {"list", "str"} )
     => (~result.ok /\ result.exc.type = "ValidationError")
  /\ ( /\ pc = "generation_done"
       /\ \/ Field(<<"code">>).t # "str"
          \/ Field(<<"explanation">>).t \notin {"str", "list"} )
     => (~result.ok /\ result.exc.type = "ValidationError")

\* a list of items, or a bare string
ListLike(x) == x.t \in {"list", "str"}
InputItems(x) == IF x.t = "str" THEN <<x>> ELSE x.v

\* the values of a mapping as texts, joined by the separator
JoinedValues(m) == Join([j \in 1..Len(m.v) |-> m.v[j][2].v], <<SEP>>)

\* C8: a list field holding any mix of strings, other scalars and mappings is
\* validated to a list of strings of the same length in the same order; a
\* mapping becomes its values joined by the separator, a bare string a list of one.
C8_ListsOfStrings ==
  pc = "summary_done" =>
    /\ (Field(<<"summary">>).t = "str" /\ \A k \in ListFieldNames : ListLike(Field(k)))
         => result.ok
    /\ result.ok =>
         \A k \in ListFieldNames : ListLike(Field(k)) =>
            /\ Len(OutField(k)) = Len(InputItems(Field(k)))
            /\ \A i \in 1..Len(OutField(k)) :
                 /\ OutField(k)[i].t = "str"
                 /\ InputItems(Field(k))[i].t = "str" => OutField(k)[i] = InputItems(Field(k))[i]
                 /\ InputItems(Field(k))[i].t = "dict" =>
                      OutField(k)[i].v = JoinedValues(InputItems(Field(k))[i])

C8_Witness ==
  /\ pc = "summary_done" /\ result.ok
  /\ Field(<<"key_functions">>) =
       JList(<< JDict(<< <<<<"n">>, JStr(<<"x">>)>>, <<<<"t">>, JNum(<<"1">>)>> >>), JStr(<<"a">>) >>)
  /\ result.val.key_functions = << JStr(<<"x", SEP, "1">>), JStr(<<"a">>) >>
  /\ Field(<<"permissions">>) = JList(<<JStr(<<"a">>)>>)

\* ------------------------------------------------------------ repair: claims

\* C5: for every text {"code":"<C>","explanation":...} whose C holds
\* literal newlines and double quotes, the repair pass yields text that parses
\* as JSON and whose code field is C exactly.
C5_RepairRoundTrip ==
  \A C \in SeqsUpTo(CodeAlphabet, MaxBodyLen) :
    ( /\ pc = "done"
      /\ \E E \in {<<QT, "e", QT>>, <<"[", QT, "e", QT, "]">>} : raw = CodeObject(C, E)
      /\ \E i \in 1..Len(C) : C[i] = NL
      /\ \E i \in 1..Len(C) : C[i] = QT )
    => (patch_calls = 1 /\ result.ok /\ DictGet(data.v, <<"code">>) = JStr(C))

\* ------------------------------------------------------------ prompt: claims

Framed(k, txt) == <<intro_map(k), NL, NL>> \o txt \o <<INSTRUCTIONS>>

\* C7: the prompt embeds the payload unchanged when its length does
\* not exceed 8000, and its first 4000 characters, an ellipsis marker and its
\* last 4000 characters exactly when its length exceeds 8000.
C7_TrimOnlyAbove8000 ==
  pc = "done" =>
    IF Len(payload) <= 8000
    THEN prompt = Framed(kind, payload)
    ELSE prompt = Framed(kind, SubSeq(payload, 1, 4000) \o <<NL, "...", NL>>
                               \o SubSeq(payload, Len(payload) - 3999, Len(payload)))

====
